---- MODULE Spec2Model ----
(***************************************************************************)
(* A model of the Motia orchestration core: the in-memory message bus, the  *)
(* MotiaCore orchestrator and its topic matching, and the MotiaServer HTTP  *)
(* trigger.  Topic and path strings are sequences of one-character strings  *)
(* so that prefix, suffix and slice are computed as the code computes them. *)
(***************************************************************************)
EXTENDS Integers, Sequences, FiniteSets, TLC

VARIABLES
    mType,       \* eventMatchesPattern: the eventType argument
    mPattern,    \* eventMatchesPattern: the pattern argument
    mCalled,     \* eventMatchesPattern: whether it was called
    mResult,     \* eventMatchesPattern: the returned boolean
    messageBus,  \* MotiaCore.messageBus: [id, rejecting, subscribers]
    components,  \* MotiaCore.components: sequence (Map insertion order) of [id, subscribe]
    initPc,      \* MotiaCore.initialize: "constructed", "loading" (between its awaits), "ready"
    rounds,      \* every publish call so far: one fan-out round each
    traffic,     \* MotiaServer.traffic: sequence (Map insertion order) of [path, config]
    routes,      \* the express routing table: set of [method, path]
    serverPc,    \* MotiaServer: "constructed", "listening", or "failed" (initialize rejected)
    reqs,        \* every inbound HTTP request so far
    pSchedule,   \* parseSchedule: the schedule argument
    pCalled,     \* parseSchedule: whether it was called
    pResult,     \* parseSchedule: [threw, ms, names] (names: what the error message quotes)
    schedules,   \* MotiaScheduler.schedules: sequence (Map insertion order) of [key, value]
    activeJobs,  \* MotiaScheduler.activeJobs: sequence (Map insertion order) of [key, value]
    timers,      \* the interval timers of the process that were set and not cleared
    nextJob,     \* the handle the next setInterval returns
    schedPc,     \* MotiaScheduler: "constructed" or "initialized"
    starts,      \* how many times start() was called
    stopReturned,\* stop() returned and start() was not called since
    startError,  \* what the last start() call threw, if it threw
    ticks,       \* how many times an interval timer fired
    bWorker,     \* the node runner process of one bridge invocation
    bChannel,    \* the messages process.send wrote that the core has not read yet
    bInvocation, \* the core's side of the invocation: surfaced events and its result
    cfgWorker    \* the config-extraction worker process of one run

matchVars == <<mType, mPattern, mCalled, mResult>>
coreVars  == <<messageBus, components, initPc, rounds>>
httpVars  == <<traffic, routes, serverPc, reqs>>
parseVars == <<pSchedule, pCalled, pResult>>
schedVars == <<schedules, activeJobs, timers, nextJob, schedPc, starts, stopReturned,
               startError, ticks>>
bridgeVars == <<bWorker, bChannel, bInvocation>>
configVars == <<cfgWorker>>
timeVars  == <<parseVars, schedVars, bridgeVars, configVars>>
vars      == <<matchVars, coreVars, httpVars, timeVars>>

(***************************************************************************)
(* Bounds of the model.                                                    *)
(***************************************************************************)
MaxLen    == 4   \* longest topic / pattern string given to eventMatchesPattern
MaxRounds == 3   \* publish calls in one behaviour
MaxReqs   == 2   \* inbound HTTP requests in one behaviour
MaxInits  == 2   \* MotiaCore.initialize calls in one behaviour (the second is a reload)
MaxReloadEmits == 2 \* publish calls in one behaviour with a reload
MaxEmits  == 2   \* emit calls of one executor run in the node runner
MaxSchedLen == 3 \* longest schedule string over the full alphabet given to parseSchedule
MaxCronLen == 9  \* longest schedule string over "*" and " " given to parseSchedule
MaxStarts == 2   \* MotiaScheduler.start calls in one behaviour

Chars == {"a", ".", "*"}

RECURSIVE StringsOfLen(_)
StringsOfLen(n) ==
    IF n = 0 THEN {<<>>}
    ELSE {Append(s, c) : s \in StringsOfLen(n - 1), c \in Chars}

Strings == UNION {StringsOfLen(n) : n \in 0..MaxLen}

Undefined == "undefined"

\* no options object
NoOptions == [none |-> TRUE]

(***************************************************************************)
(* String helpers (String.prototype.startsWith / endsWith / slice).         *)
(***************************************************************************)
startsWith(s, prefix) ==
    /\ Len(prefix) <= Len(s)
    /\ SubSeq(s, 1, Len(prefix)) = prefix

endsWith(s, suffix) ==
    /\ Len(suffix) <= Len(s)
    /\ SubSeq(s, Len(s) - Len(suffix) + 1, Len(s)) = suffix

\* s.slice(0, -n)
sliceEnd(s, n) == IF Len(s) <= n THEN <<>> ELSE SubSeq(s, 1, Len(s) - n)

(***************************************************************************)
(* MotiaCore.eventMatchesPattern                                           *)
(***************************************************************************)
\* faulty variant: the exact-equality test is missing
eventMatchesPatternNoExact(eventType, pattern) ==
    IF pattern = <<"*">> THEN TRUE
    ELSE IF endsWith(pattern, <<".", "*">>)
         THEN startsWith(eventType, sliceEnd(pattern, 2))
         ELSE FALSE

eventMatchesPattern(eventType, pattern) ==
    IF pattern = <<"*">> THEN TRUE
    ELSE IF pattern = eventType THEN TRUE
    ELSE IF endsWith(pattern, <<".", "*">>)
         THEN startsWith(eventType, sliceEnd(pattern, 2))
         ELSE FALSE

(***************************************************************************)
(* The data the orchestration actions draw their inputs from.               *)
(***************************************************************************)
\* topic strings: "a.a" (order.created), "aa.a" (orderline.created), "a" (order)
TypeDotted == <<"a", ".", "a">>
TypeLonger == <<"a", "a", ".", "a">>
TypeBare   == <<"a">>
EventTypes == {TypeDotted, TypeLonger}

PatternAny    == <<"*">>
PatternSuffix == <<"a", ".", "*">>
PatternExact  == <<"a", ".", "a">>

\* events handed to emit: { type, data }
Events == {[type |-> t, data |-> "payload"] : t \in EventTypes}

\* options handed to a direct MotiaCore.emit call
EmitOptions == {[traceId |-> <<"t", "1">>], [traceId |-> <<"t", "2">>]}

\* component modules found on disk: what require(file) yields
ModuleIds == {"wild", "exact", "multi", "plain", "broken"}
Module(id) ==
    CASE id = "wild"   -> [loads |-> TRUE,  hasSubscribe |-> TRUE,  subscribe |-> <<PatternSuffix>>]
      [] id = "exact"  -> [loads |-> TRUE,  hasSubscribe |-> TRUE,  subscribe |-> <<PatternExact>>]
      [] id = "multi"  -> [loads |-> TRUE,  hasSubscribe |-> TRUE,  subscribe |-> <<PatternAny, PatternExact>>]
      [] id = "plain"  -> [loads |-> TRUE,  hasSubscribe |-> FALSE, subscribe |-> <<>>]
      [] id = "broken" -> [loads |-> FALSE, hasSubscribe |-> FALSE, subscribe |-> <<>>]

\* what findComponentFiles may return
ComponentFileLists == {<<"wild", "exact">>, <<"broken", "plain", "multi">>}

\* options.messageBus: absent, or a provided bus whose publish rejects
BusOptions == {"absent", "rejecting"}

(***************************************************************************)
(* InMemoryMessageBus                                                      *)
(***************************************************************************)
\* constructor
NewInMemoryMessageBus(id) == [id |-> id, rejecting |-> FALSE, subscribers |-> <<>>]

\* a bus handed in through options.messageBus whose publish rejects
ProvidedRejectingBus(id) == [id |-> id, rejecting |-> TRUE, subscribers |-> <<>>]

\* subscribe(handler)
subscribe(bus, handler) == [bus EXCEPT !.subscribers = Append(@, handler)]

(***************************************************************************)
(* MotiaCore.initialize: the subscriber closure of one (component, pattern) *)
(* pair, called by publish with (event, opts).  It runs synchronously up to *)
(* the component's first await.  The result is the state of that call:      *)
(*   st     "skipped" the pattern did not match, the closure fulfilled      *)
(*          "failed"  the closure or the component threw                    *)
(*          "running" the component was invoked and has not finished        *)
(*          "ok"      the component returned                                *)
(*   calls  how many times the component was invoked                        *)
(*   args   the arguments of that invocation                                *)
(***************************************************************************)
NoArgs == [input |-> Undefined, emitOpts |-> NoOptions, third |-> <<>>]

\* faulty variant: the emit callback forgets the options, (e) => this.emit(e)
emitCallbackDropsOptions(opts) == NoOptions

\* the emit callback handed to the component: (e) => this.emit(e, opts)
emitCallbackOptions(opts) == opts

subscriberCall(handler, event, opts) ==
    IF eventMatchesPattern(event.type, handler.pattern)
    THEN [step |-> handler.step, pattern |-> handler.pattern, invoked |-> TRUE,
          st |-> "running", calls |-> 1,
          args |-> [input |-> event.data,
                    emitOpts |-> emitCallbackOptions(opts),
                    third |-> event.type],
          waitsFor |-> 0]
    ELSE [step |-> handler.step, pattern |-> handler.pattern, invoked |-> TRUE,
          st |-> "skipped", calls |-> 0, args |-> NoArgs, waitsFor |-> 0]

Settled(sub) == sub.st \in {"skipped", "ok", "failed"}

\* faulty variant: the .catch is missing, a failed subscriber's promise stays rejected
catchOutcomeNoCatch(sub) ==
    IF sub.st = "failed" THEN "rejected"
    ELSE IF Settled(sub) THEN "fulfilled" ELSE "pending"

\* the promise publish waits on for one subscriber: subscriber(...).catch(log)
catchOutcome(sub) ==
    IF Settled(sub) THEN "fulfilled" ELSE "pending"

\* faulty variant: Promise.race in place of Promise.all
promiseRace(subs) ==
    IF \E i \in 1..Len(subs) : catchOutcome(subs[i]) = "rejected" THEN "rejected"
    ELSE IF \E i \in 1..Len(subs) : catchOutcome(subs[i]) = "fulfilled" THEN "resolved"
    ELSE "pending"

\* Promise.all over the caught subscriber promises
promiseAll(subs) ==
    IF \E i \in 1..Len(subs) : catchOutcome(subs[i]) = "rejected" THEN "rejected"
    ELSE IF \A i \in 1..Len(subs) : catchOutcome(subs[i]) = "fulfilled" THEN "resolved"
    ELSE "pending"

\* faulty variant: the subscribers are awaited one after the other, only the first
\* is called before publish first awaits
publishSequential(bus, event, options, origin) ==
    [bus |-> bus.id, inMemory |-> TRUE, event |-> event, opts |-> options,
     origin |-> origin,
     subs |-> [i \in 1..Len(bus.subscribers) |->
                  IF i = 1 THEN subscriberCall(bus.subscribers[i], event, options)
                  ELSE [step |-> bus.subscribers[i].step,
                        pattern |-> bus.subscribers[i].pattern, invoked |-> FALSE,
                        st |-> "waiting", calls |-> 0, args |-> NoArgs, waitsFor |-> 0]],
     outcome |-> "pending"]

\* InMemoryMessageBus.publish(event, options): the fan-out round it starts.
\* subscribers.map calls every subscriber before publish first awaits.
publish(bus, event, options, origin) ==
    IF bus.rejecting
    THEN [bus |-> bus.id, inMemory |-> FALSE, event |-> event, opts |-> options,
          origin |-> origin, subs |-> <<>>, outcome |-> "rejected"]
    ELSE [bus |-> bus.id, inMemory |-> TRUE, event |-> event, opts |-> options,
          origin |-> origin,
          subs |-> [i \in 1..Len(bus.subscribers) |->
                        subscriberCall(bus.subscribers[i], event, options)],
          outcome |-> "pending"]

\* who called publish
DirectOrigin       == [kind |-> "emit", round |-> 0, sub |-> 0, req |-> 0]
HandlerOrigin(r, i) == [kind |-> "handler", round |-> r, sub |-> i, req |-> 0]
RequestOrigin(q)   == [kind |-> "http", round |-> 0, sub |-> 0, req |-> q]

(***************************************************************************)
(* MotiaCore                                                               *)
(***************************************************************************)
\* registerComponent(path): the components map after it
registerComponent(comps, id) ==
    IF Module(id).loads /\ Module(id).hasSubscribe
    THEN IF \E k \in 1..Len(comps) : comps[k].id = id
         THEN comps
         ELSE Append(comps, [id |-> id, subscribe |-> Module(id).subscribe])
    ELSE comps

RECURSIVE registerComponents(_, _)
registerComponents(comps, files) ==
    IF files = <<>> THEN comps
    ELSE registerComponents(registerComponent(comps, Head(files)), Tail(files))

\* for (const eventPattern of module.subscribe) messageBus.subscribe(closure)
RECURSIVE subscribePatterns(_, _, _)
subscribePatterns(bus, id, patterns) ==
    IF patterns = <<>> THEN bus
    ELSE subscribePatterns(subscribe(bus, [step |-> id, pattern |-> Head(patterns)]),
                           id, Tail(patterns))

\* this.components.forEach(...)
RECURSIVE subscribeComponents(_, _)
subscribeComponents(bus, comps) ==
    IF comps = <<>> THEN bus
    ELSE subscribeComponents(subscribePatterns(bus, Head(comps).id, Head(comps).subscribe),
                             Tail(comps))

\* initialize, lines 89-93: the bus and the maps are replaced, then it awaits
InitializeBegin(busOption) ==
    /\ initPc = "constructed"
    /\ messageBus' = IF busOption = "rejecting"
                     THEN ProvidedRejectingBus(messageBus.id + 1)
                     ELSE NewInMemoryMessageBus(messageBus.id + 1)
    /\ components' = <<>>
    /\ initPc' = "loading"
    /\ UNCHANGED <<rounds, matchVars, httpVars, timeVars>>

\* initialize, lines 104-125: after the awaits, register and subscribe
InitializeLoad(files) ==
    /\ initPc = "loading"
    /\ LET comps == registerComponents(components, files)
       IN /\ components' = comps
          /\ messageBus' = subscribeComponents(messageBus, comps)
    /\ initPc' = "ready"
    /\ UNCHANGED <<rounds, matchVars, httpVars, timeVars>>

\* MotiaCore.emit(event, options)
emit(event, options, origin) == publish(messageBus, event, options, origin)

\* an application calls core.emit directly
Emit(event, options) ==
    /\ Len(rounds) < MaxRounds
    /\ rounds' = Append(rounds, emit(event, options, DirectOrigin))
    /\ UNCHANGED <<messageBus, components, initPc, matchVars, httpVars, timeVars>>

\* a component that was invoked and is not suspended on an unsettled emit
CanRun(r, i) ==
    /\ rounds[r].subs[i].st = "running"
    /\ IF rounds[r].subs[i].waitsFor = 0 THEN TRUE
       ELSE rounds[rounds[r].subs[i].waitsFor].outcome # "pending"

\* a running component calls its emit callback, awaiting the promise or not
HandlerEmit(r, i, event, awaited) ==
    /\ Len(rounds) < MaxRounds
    /\ CanRun(r, i)
    /\ LET child == emit(event, rounds[r].subs[i].args.emitOpts, HandlerOrigin(r, i))
           me    == [rounds[r].subs[i] EXCEPT
                        !.waitsFor = IF awaited THEN Len(rounds) + 1 ELSE 0]
       IN rounds' = Append([rounds EXCEPT ![r].subs[i] = me], child)
    /\ UNCHANGED <<messageBus, components, initPc, matchVars, httpVars, timeVars>>

\* what a failed component leaves behind: the rejection is caught, nothing is retried
afterFailure(sub) == [sub EXCEPT !.st = "failed", !.waitsFor = 0]

\* a running component returns
HandlerReturn(r, i) ==
    /\ CanRun(r, i)
    /\ rounds' = [rounds EXCEPT ![r].subs[i] = [@ EXCEPT !.st = "ok", !.waitsFor = 0]]
    /\ UNCHANGED <<messageBus, components, initPc, matchVars, httpVars, timeVars>>

\* a running component throws (or the emit it awaited rejected)
HandlerThrow(r, i) ==
    /\ CanRun(r, i)
    /\ rounds' = [rounds EXCEPT ![r].subs[i] = afterFailure(@)]
    /\ UNCHANGED <<messageBus, components, initPc, matchVars, httpVars, timeVars>>

\* the promise of publish settles: await Promise.all(...)
PublishSettle(r) ==
    /\ rounds[r].inMemory
    /\ rounds[r].outcome = "pending"
    /\ promiseAll(rounds[r].subs) # "pending"
    /\ rounds' = [rounds EXCEPT ![r].outcome = promiseAll(rounds[r].subs)]
    /\ UNCHANGED <<messageBus, components, initPc, matchVars, httpVars, timeVars>>

CoreInit ==
    /\ messageBus = NewInMemoryMessageBus(0)
    /\ components = <<>>
    /\ initPc = "constructed"
    /\ rounds = <<>>

MatchIdle == mType = <<>> /\ mPattern = <<>> /\ mCalled = FALSE /\ mResult = FALSE

HttpIdle == traffic = <<>> /\ routes = {} /\ serverPc = "constructed" /\ reqs = <<>>

\* MotiaCore.initialize, and the components and publish promises finishing
CoreNext ==
    \/ \E b \in BusOptions : InitializeBegin(b)
    \/ \E f \in ComponentFileLists : InitializeLoad(f)
    \/ \E r \in 1..Len(rounds) : \E i \in 1..Len(rounds[r].subs) : HandlerReturn(r, i)
    \/ \E r \in 1..Len(rounds) : \E i \in 1..Len(rounds[r].subs) : HandlerThrow(r, i)
    \/ \E r \in 1..Len(rounds) : PublishSettle(r)

\* parseSchedule was not called
NoResult == [threw |-> FALSE, ms |-> 0, names |-> <<>>]
ParseIdle == pSchedule = <<>> /\ pCalled = FALSE /\ pResult = NoResult

\* MotiaScheduler.constructor; no timer is set in a fresh process
NoError == [threw |-> FALSE, names |-> <<>>]
SchedulerInit ==
    /\ schedules = <<>>
    /\ activeJobs = <<>>
    /\ timers = {}
    /\ nextJob = 1
    /\ schedPc = "constructed"
    /\ starts = 0
    /\ stopReturned = FALSE
    /\ startError = NoError
    /\ ticks = 0

\* no worker was spawned
NoScript == [hasExecutor |-> FALSE, emits |-> <<>>, end |-> "return"]
NoWorker == [pc |-> "none", script |-> NoScript, emitted |-> <<>>, stdout |-> <<>>,
             threw |-> FALSE, exitCode |-> 0]
NoInvocation == [st |-> "idle", surfaced |-> <<>>, terminalRead |-> FALSE,
                 error |-> "none"]
BridgeIdle == bWorker = NoWorker /\ bChannel = <<>> /\ bInvocation = NoInvocation

\* a value a step file's config function can return: nil, a string, a hash of one
\* string key and string value, or a float that is not a number
Nil == [t |-> "nil", k |-> <<>>, s |-> <<>>]
NoException == [class |-> "none", status |-> 0]
\* no config-extraction worker was spawned
NoRun == [argv |-> <<>>, exists |-> FALSE, readable |-> FALSE, existsAtLoad |-> FALSE,
          load |-> "noConfig", config |-> "returns", value |-> Nil, fd |-> "open"]
NoConfigWorker == [pc |-> "none", run |-> NoRun, config |-> Nil, channel |-> <<>>,
                   stderr |-> 0, status |-> 0]
ConfigIdle == cfgWorker = NoConfigWorker

Init == CoreInit /\ MatchIdle /\ HttpIdle /\ ParseIdle /\ SchedulerInit /\ BridgeIdle /\ ConfigIdle

\* the core driven by direct emits, with components that emit further events
Next ==
    \/ CoreNext
    \/ \E e \in Events, o \in EmitOptions : Emit(e, o)
    \/ \E r \in 1..Len(rounds) : \E i \in 1..Len(rounds[r].subs) :
          \E e \in Events, aw \in BOOLEAN : HandlerEmit(r, i, e, aw)

Spec == Init /\ [][Next]_vars

\* a second initialize on a running core (a reload), lines 89-93: the bus and the
\* maps are replaced at once, the components are subscribed only after the awaits
Reinitialize(busOption) ==
    /\ initPc = "ready"
    /\ messageBus.id < MaxInits
    /\ messageBus' = CASE busOption = "rejecting" ->
                            ProvidedRejectingBus(messageBus.id + 1)
                       [] busOption = "same" ->
                            [messageBus EXCEPT !.id = messageBus.id + 1]
                       [] OTHER ->
                            NewInMemoryMessageBus(messageBus.id + 1)
    /\ components' = <<>>
    /\ initPc' = "loading"
    /\ UNCHANGED <<rounds, matchVars, httpVars, timeVars>>

\* options.messageBus of a reload: absent, another provided bus, or the very bus
\* object the core already uses, passed again
ReloadBusOptions == BusOptions \cup {"same"}

\* the core reloaded while events are emitted
ReloadNext ==
    \/ CoreNext
    \/ \E b \in ReloadBusOptions : Reinitialize(b)
    \/ \E e \in Events, o \in EmitOptions : Len(rounds) < MaxReloadEmits /\ Emit(e, o)

SpecReload == Init /\ [][ReloadNext]_vars

(***************************************************************************)
(* MotiaServer                                                             *)
(***************************************************************************)
PathA      == <<"/", "a">>
PathASlash == <<"/", "a", "/">>
PathB      == <<"/", "b">>
PathBBare  == <<"b">>
PathC      == <<"/", "c">>

\* traffic configurations found on disk; authorize is optional
ConfigA   == [id |-> "cfgA", path |-> PathA, method |-> "POST",
              hasAuthorize |-> TRUE, hasTransform |-> TRUE]
ConfigB   == [id |-> "cfgB", path |-> PathBBare, method |-> "GET",
              hasAuthorize |-> FALSE, hasTransform |-> TRUE]
ConfigBad == [id |-> "cfgBad", path |-> PathC, method |-> "POST",
              hasAuthorize |-> FALSE, hasTransform |-> FALSE]
\* a second configuration for POST /a, without authorize
ConfigA2  == [id |-> "cfgA2", path |-> PathA, method |-> "POST",
              hasAuthorize |-> FALSE, hasTransform |-> TRUE]

\* what the traffic files of one MotiaServer.initialize may hold
TrafficConfigLists ==
    {<<ConfigA, ConfigB>>, <<ConfigA, ConfigBad>>, <<ConfigBad, ConfigB>>,
     <<ConfigA, ConfigA2>>}

\* inbound requests: method, path and the x-trace-id header (or none)
RequestShapes ==
    {[method |-> "POST", path |-> PathA], [method |-> "POST", path |-> PathASlash],
     [method |-> "GET", path |-> PathB], [method |-> "POST", path |-> PathC]}
TraceHeaders == {Undefined, "h1"}

toLowerCase(method) ==
    CASE method = "POST" -> "post"
      [] method = "GET"  -> "get"
      [] OTHER           -> method

\* Map.prototype.get / set on a sequence of [key, value] in insertion order
mapHas(map, key) == \E k \in 1..Len(map) : map[k].key = key
mapGet(map, key) == map[CHOOSE k \in 1..Len(map) : map[k].key = key].value
mapSet(map, key, value) ==
    IF mapHas(map, key)
    THEN [k \in 1..Len(map) |->
             IF map[k].key = key THEN [key |-> key, value |-> value] ELSE map[k]]
    ELSE Append(map, [key |-> key, value |-> value])

\* registerTraffic(config): [threw, traffic]
registerTraffic(map, config) ==
    IF config.path = <<>> \/ config.method = "" \/ ~config.hasTransform
    THEN [threw |-> TRUE, traffic |-> map]
    ELSE LET path == IF startsWith(config.path, <<"/">>)
                     THEN config.path ELSE <<"/">> \o config.path
         IN [threw |-> FALSE, traffic |-> mapSet(map, path, config)]

\* for (const config of trafficConfigs) this.registerTraffic(config): stops at a throw
RECURSIVE registerAll(_, _)
registerAll(map, configs) ==
    IF configs = <<>> THEN [threw |-> FALSE, traffic |-> map]
    ELSE LET one == registerTraffic(map, Head(configs))
         IN IF one.threw THEN one ELSE registerAll(one.traffic, Tail(configs))

\* this.traffic.forEach((config, path) => this.express[method](path, wrapper))
expressRoutes(map) ==
    {[method |-> toLowerCase(map[k].value.method), path |-> map[k].key] :
        k \in 1..Len(map)}

\* MotiaServer.initialize(core, trafficPaths)
ServerInitialize(configs) ==
    /\ serverPc = "constructed"
    /\ LET res == registerAll(traffic, configs)
       IN /\ traffic' = res.traffic
          /\ IF res.threw
             THEN routes' = routes /\ serverPc' = "failed"
             ELSE routes' = expressRoutes(res.traffic) /\ serverPc' = "listening"
    /\ UNCHANGED <<reqs, coreVars, matchVars, timeVars>>

\* express routing (non-strict: a trailing slash still matches the route)
expressMatches(route, method, path) ==
    /\ route.method = toLowerCase(method)
    /\ \/ path = route.path
       \/ path = route.path \o <<"/">>

\* the options handleRequest hands to core.emit
requestOptions(req) ==
    [traceId |-> req.header,
     metadata |-> [source |-> "http", path |-> req.path, method |-> req.method]]

\* transform has not returned an event
NoEvent == [type |-> <<>>, data |-> Undefined]

NewRequest(shape, header) ==
    [method |-> shape.method, path |-> shape.path, header |-> header,
     pc |-> "new", log |-> <<>>, sent |-> <<>>, round |-> 0,
     auth |-> "none", transformThrew |-> FALSE, event |-> NoEvent]

\* faulty variant: the status is sent, and sent again
respondTwice(req, status) ==
    [req EXCEPT !.sent = Append(Append(@, status), status), !.pc = "done"]

\* res.status(status).json(...), after which the handler is finished
respond(req, status) == [req EXCEPT !.sent = Append(@, status), !.pc = "done"]

callTransform(req) == [req EXCEPT !.log = Append(@, "transform"), !.pc = "transform"]

\* faulty variant: the lookup's 404 branch is missing
handleRequestNoLookup(req) ==
    IF mapHas(traffic, req.path) /\ mapGet(traffic, req.path).hasAuthorize
    THEN [req EXCEPT !.log = Append(@, "authorize"), !.pc = "authorize",
                     !.auth = "pending"]
    ELSE callTransform(req)

\* handleRequest up to its first await: the lookup, then authorize or transform is called
handleRequest(req) ==
    IF ~mapHas(traffic, req.path)
    THEN respond(req, 404)
    ELSE IF mapGet(traffic, req.path).hasAuthorize
         THEN [req EXCEPT !.log = Append(@, "authorize"), !.pc = "authorize",
                          !.auth = "pending"]
         ELSE callTransform(req)

\* a request arrives; express runs the route's wrapper or answers 404 itself
HttpRequest(shape, header) ==
    /\ serverPc = "listening"
    /\ Len(reqs) < MaxReqs
    /\ LET req == NewRequest(shape, header)
       IN reqs' = Append(reqs,
                    IF \E route \in routes : expressMatches(route, req.method, req.path)
                    THEN handleRequest(req)
                    ELSE respond(req, 404))
    /\ UNCHANGED <<traffic, routes, serverPc, coreVars, matchVars, timeVars>>

\* faulty variant: the return after the 401 is missing, transform is still called
afterAuthorizeNoReturn(req, rejected) ==
    IF rejected THEN callTransform([req EXCEPT !.sent = Append(@, 401)])
    ELSE callTransform(req)

\* await traffic.authorize(req) settles
afterAuthorize(req, rejected) ==
    IF rejected THEN respond(req, 401) ELSE callTransform(req)

AuthorizeSettles(q, rejected) ==
    /\ reqs[q].pc = "authorize"
    /\ reqs' = [reqs EXCEPT ![q] =
                  afterAuthorize([@ EXCEPT !.auth = IF rejected THEN "rejected" ELSE "ok"],
                                 rejected)]
    /\ UNCHANGED <<traffic, routes, serverPc, coreVars, matchVars, timeVars>>

\* await traffic.transform(req) threw: the outer catch
TransformThrows(q) ==
    /\ reqs[q].pc = "transform"
    /\ reqs' = [reqs EXCEPT ![q] = respond([@ EXCEPT !.transformThrew = TRUE], 400)]
    /\ UNCHANGED <<traffic, routes, serverPc, coreVars, matchVars, timeVars>>

\* faulty variant: the event is emitted twice
requestEmitsTwice(q, event) ==
    <<emit(event, requestOptions(reqs[q]), RequestOrigin(q)),
      emit(event, requestOptions(reqs[q]), RequestOrigin(q))>>

\* the publishes handleRequest makes for the event transform returned (lines 520-527)
requestEmits(q, event) ==
    <<emit(event, requestOptions(reqs[q]), RequestOrigin(q))>>

\* await traffic.transform(req) returned the event: core.emit is called
TransformReturns(q, event) ==
    /\ reqs[q].pc = "transform"
    /\ Len(rounds) + Len(requestEmits(q, event)) <= MaxRounds
    /\ rounds' = rounds \o requestEmits(q, event)
    /\ reqs' = [reqs EXCEPT ![q] = [@ EXCEPT !.log = Append(@, "emit"), !.pc = "emit",
                                              !.round = Len(rounds) + 1,
                                              !.event = event]]
    /\ UNCHANGED <<traffic, routes, serverPc, messageBus, components, initPc, matchVars, timeVars>>

\* the status after await this.core.emit(...) settled
afterEmit(outcome) == IF outcome = "resolved" THEN 200 ELSE 400

\* faulty variant: core.emit is not awaited, handleRequest goes on at once
awaitedOutcomeNoAwait(round) == "resolved"

\* what await this.core.emit(...) sees of the publish: "pending" keeps it suspended
awaitedOutcome(round) == round.outcome

\* await this.core.emit(...) settles: the 200, or the outer catch
EmitSettles(q) ==
    /\ reqs[q].pc = "emit"
    /\ awaitedOutcome(rounds[reqs[q].round]) # "pending"
    /\ reqs' = [reqs EXCEPT ![q] =
                  respond(@, afterEmit(awaitedOutcome(rounds[reqs[q].round])))]
    /\ UNCHANGED <<traffic, routes, serverPc, coreVars, matchVars, timeVars>>

HttpNext ==
    \/ \E c \in TrafficConfigLists : ServerInitialize(c)
    \/ \E s \in RequestShapes, h \in TraceHeaders : HttpRequest(s, h)
    \/ \E q \in 1..Len(reqs) : \E rej \in BOOLEAN : AuthorizeSettles(q, rej)
    \/ \E q \in 1..Len(reqs) : TransformThrows(q)
    \/ \E q \in 1..Len(reqs) : \E e \in Events : TransformReturns(q, e)
    \/ \E q \in 1..Len(reqs) : EmitSettles(q)

\* the core driven by HTTP requests; event chains are the subject of Spec
SpecHttp == Init /\ [][CoreNext \/ HttpNext]_vars

(***************************************************************************)
(* MotiaScheduler.parseSchedule                                            *)
(***************************************************************************)
Digits == {"0", "1", "2", "3", "4", "5", "6", "7", "8", "9"}
Units  == {"s", "m", "h", "d"}

digitValue(c) ==
    CASE c = "0" -> 0 [] c = "1" -> 1 [] c = "2" -> 2 [] c = "3" -> 3 [] c = "4" -> 4
      [] c = "5" -> 5 [] c = "6" -> 6 [] c = "7" -> 7 [] c = "8" -> 8 [] c = "9" -> 9

\* parseInt(value, 10) on a string of digits
RECURSIVE parseInt(_)
parseInt(value) ==
    IF value = <<>> THEN 0
    ELSE 10 * parseInt(SubSeq(value, 1, Len(value) - 1)) + digitValue(value[Len(value)])

\* schedule.match(/^(\d+)(s|m|h|d)$/)
timeRegexMatches(schedule) ==
    /\ Len(schedule) >= 2
    /\ schedule[Len(schedule)] \in Units
    /\ \A k \in 1..(Len(schedule) - 1) : schedule[k] \in Digits

\* the milliseconds of one unit
unitMs(unit) ==
    CASE unit = "s" -> 1000
      [] unit = "m" -> 60 * 1000
      [] unit = "h" -> 60 * 60 * 1000
      [] unit = "d" -> 24 * 60 * 60 * 1000

\* schedule.split(" "): the pieces between single spaces, empty pieces included
RECURSIVE split(_)
split(str) ==
    IF \E k \in 1..Len(str) : str[k] = " "
    THEN LET k == CHOOSE i \in 1..Len(str) :
                     str[i] = " " /\ \A j \in 1..(i - 1) : str[j] # " "
         IN <<SubSeq(str, 1, k - 1)>> \o split(SubSeq(str, k + 1, Len(str)))
    ELSE <<str>>

\* parseSchedule(schedule): the interval, or the thrown error (which quotes the string)
parseSchedule(schedule) ==
    IF timeRegexMatches(schedule)
    THEN [threw |-> FALSE,
          ms |-> parseInt(SubSeq(schedule, 1, Len(schedule) - 1))
                   * unitMs(schedule[Len(schedule)]),
          names |-> <<>>]
    ELSE IF Len(split(schedule)) = 5
         THEN [threw |-> FALSE, ms |-> 60 * 60 * 1000, names |-> <<>>]
         ELSE [threw |-> TRUE, ms |-> 0, names |-> schedule]

\* schedule strings: every string up to MaxSchedLen over digits, units, space and
\* "*", every string up to MaxCronLen over "*" and " ", and two longer examples
ScheduleChars == {"0", "2", "s", "m", "h", "d", " ", "*"}
CronChars == {"*", " "}
ExampleSchedules == {<<"3", "0", "s">>, <<"a", "b", "c">>}

RECURSIVE StringsOver(_, _)
StringsOver(chars, n) ==
    IF n = 0 THEN {<<>>}
    ELSE {Append(str, c) : str \in StringsOver(chars, n - 1), c \in chars}

ScheduleStrings ==
    UNION ({StringsOver(ScheduleChars, n) : n \in 0..MaxSchedLen}
             \cup {StringsOver(CronChars, n) : n \in 0..MaxCronLen}
             \cup {ExampleSchedules})

InitParse ==
    /\ pSchedule \in ScheduleStrings
    /\ pCalled = FALSE
    /\ pResult = NoResult
    /\ CoreInit /\ MatchIdle /\ HttpIdle /\ SchedulerInit /\ BridgeIdle /\ ConfigIdle

Parse ==
    /\ ~pCalled
    /\ pCalled' = TRUE
    /\ pResult' = parseSchedule(pSchedule)
    /\ UNCHANGED <<pSchedule, schedVars, bridgeVars, configVars, matchVars, coreVars, httpVars>>

SpecParse == InitParse /\ [][Parse]_vars

(***************************************************************************)
(* MotiaScheduler                                                          *)
(***************************************************************************)
\* schedule files found on disk: the id derived from the path and the default export
JobA    == [id |-> <<"j", "a">>, hasDefault |-> TRUE,
            interval |-> <<"3", "0", "s">>, eventType |-> TypeDotted]
JobB    == [id |-> <<"j", "b">>, hasDefault |-> TRUE,
            interval |-> <<"2", "h">>, eventType |-> TypeLonger]
JobBad  == [id |-> <<"j", "x">>, hasDefault |-> TRUE,
            interval |-> <<"a", "b", "c">>, eventType |-> TypeDotted]
JobNone == [id |-> <<"j", "n">>, hasDefault |-> FALSE,
            interval |-> <<>>, eventType |-> <<>>]

\* what findScheduleFiles may return
ScheduleFileLists ==
    {<<JobA, JobB>>, <<JobA, JobBad>>, <<JobBad, JobB>>, <<JobNone, JobA>>}

\* new Date().toISOString() at a tick
Dates == {"d1", "d2"}

\* for (const file of scheduleFiles) ... this.schedules.set(id, scheduleModule.default)
RECURSIVE loadSchedules(_, _)
loadSchedules(map, files) ==
    IF files = <<>> THEN map
    ELSE loadSchedules(
            IF Head(files).hasDefault
            THEN mapSet(map, Head(files).id,
                        [interval |-> Head(files).interval,
                         eventType |-> Head(files).eventType])
            ELSE map,
            Tail(files))

\* MotiaScheduler.initialize(core, schedulePaths)
SchedulerInitialize(files) ==
    /\ schedPc = "constructed"
    /\ schedules' = loadSchedules(schedules, files)
    /\ schedPc' = "initialized"
    /\ UNCHANGED <<activeJobs, timers, nextJob, starts, stopReturned, startError, ticks,
                   parseVars, bridgeVars, configVars, matchVars, coreVars, httpVars>>

\* faulty variant: every callback reads one shared id, the last schedule's
timerClosureSharedId(schedule, id) ==
    [scheduleId |-> schedules[Len(schedules)].key, eventType |-> schedule.eventType]

\* what the setInterval callback closes over: the forEach parameters schedule and id
timerClosure(schedule, id) ==
    [scheduleId |-> id, eventType |-> schedule.eventType]

\* start(): schedules.forEach from entry k on; a throw of parseSchedule leaves the loop
RECURSIVE startFrom(_, _)
startFrom(k, st) ==
    IF k > Len(schedules) THEN st
    ELSE LET id       == schedules[k].key
             schedule == schedules[k].value
             interval == parseSchedule(schedule.interval)
         IN IF interval.threw
            THEN [st EXCEPT !.error = [threw |-> TRUE, names |-> interval.names]]
            ELSE startFrom(k + 1,
                   [activeJobs |-> mapSet(st.activeJobs, id, st.nextJob),
                    timers |-> st.timers \cup
                                 {[job |-> st.nextJob, schedule |-> id,
                                   interval |-> interval.ms,
                                   closure |-> timerClosure(schedule, id)]},
                    nextJob |-> st.nextJob + 1,
                    error |-> st.error])

\* MotiaScheduler.start(), called on an initialized scheduler
Start ==
    /\ schedPc = "initialized"
    /\ starts < MaxStarts
    /\ LET st == startFrom(1, [activeJobs |-> activeJobs, timers |-> timers,
                               nextJob |-> nextJob, error |-> NoError])
       IN /\ activeJobs' = st.activeJobs
          /\ timers' = st.timers
          /\ nextJob' = st.nextJob
          /\ startError' = st.error
    /\ starts' = starts + 1
    /\ stopReturned' = FALSE
    /\ UNCHANGED <<schedules, schedPc, ticks, parseVars, bridgeVars, configVars, matchVars,
                   coreVars, httpVars>>

\* MotiaScheduler.stop(): clearInterval on every job of activeJobs, then clear the map
Stop ==
    /\ timers' = {t \in timers :
                     ~\E k \in 1..Len(activeJobs) : activeJobs[k].value = t.job}
    /\ activeJobs' = <<>>
    /\ stopReturned' = TRUE
    /\ UNCHANGED <<schedules, nextJob, schedPc, starts, startError, ticks,
                   parseVars, bridgeVars, configVars, matchVars, coreVars, httpVars>>

\* the event and options of one tick (lines 675-689)
tickEvent(t, now) ==
    [type |-> t.closure.eventType,
     data |-> [scheduledAt |-> now, scheduleId |-> t.closure.scheduleId]]
tickOptions(t) ==
    [metadata |-> [source |-> "scheduler", scheduleId |-> t.closure.scheduleId]]

\* who called publish: the callback of timer t, at time now
SchedulerOrigin(t, now) ==
    [kind |-> "scheduler", round |-> 0, sub |-> 0, req |-> 0,
     job |-> t.job, schedule |-> t.schedule, at |-> now, afterStop |-> stopReturned]

\* faulty variant: ticks are chained, a tick waits for the publishes of the
\* earlier ticks of its schedule
tickWaitsForPrevious(t) ==
    {r \in 1..Len(rounds) :
        rounds[r].origin.kind = "scheduler" /\ rounds[r].origin.schedule = t.schedule}

\* the publishes a timer waits for before it fires again: none, setInterval fires
\* on time and the callback does not await core.emit
tickWaitsFor(t) == {}

\* a live interval timer fires: its callback calls core.emit and does not await it
Tick(t, now) ==
    /\ t \in timers
    /\ \A r \in tickWaitsFor(t) : rounds[r].outcome # "pending"
    /\ Len(rounds) < MaxRounds
    /\ rounds' = Append(rounds, emit(tickEvent(t, now), tickOptions(t),
                                     SchedulerOrigin(t, now)))
    /\ ticks' = ticks + 1
    /\ UNCHANGED <<schedules, activeJobs, timers, nextJob, schedPc, starts, stopReturned,
                   startError, parseVars, bridgeVars, configVars, messageBus, components, initPc,
                   matchVars, httpVars>>

\* the scheduler started, stopped and ticking on a constructed core
SchedulerNext ==
    \/ \E f \in ScheduleFileLists : SchedulerInitialize(f)
    \/ Start
    \/ Stop
    \/ \E t \in timers, now \in Dates : Tick(t, now)
    \/ \E r \in 1..Len(rounds) : PublishSettle(r)

SpecScheduler == Init /\ [][SchedulerNext]_vars

\* the scheduler ticking on a core whose components run and fail: the application
\* initializes the core, then the scheduler, starts it and lets it run
TicksNext ==
    \/ CoreNext
    \/ \E f \in ScheduleFileLists : initPc = "ready" /\ SchedulerInitialize(f)
    \/ Start
    \/ \E t \in timers : Tick(t, "d1")

SpecTicks == Init /\ [][TicksNext]_vars

(***************************************************************************)
(* The step bridge.  The worker side is the node runner (runTypescriptModule) *)
(* of the sources; the core side, which spawns the runner and reads its       *)
(* channel, follows section 4.3 of the specification.                        *)
(***************************************************************************)
\* what the module's executor does: the events it hands to emit, in order, and how
\* it ends ("return" a value, "returnUndefined", or "throw")
ExecutorScripts ==
    {[hasExecutor |-> TRUE, emits |-> es, end |-> e] :
        es \in UNION {[1..n -> Events] : n \in 0..MaxEmits},
        e \in {"return", "returnUndefined", "throw"}}
      \cup {NoScript}

\* the core spawns the runner for one invocation and waits for its result
BridgeInvoke(script) ==
    /\ bInvocation.st = "idle"
    /\ bWorker' = [NoWorker EXCEPT !.pc = "running", !.script = script]
    /\ bInvocation' = [NoInvocation EXCEPT !.st = "pending"]
    /\ UNCHANGED <<bChannel, parseVars, schedVars, configVars, matchVars, coreVars, httpVars>>

\* faulty variant: the message is put in front of the ones not read yet
processSendFirst(channel, data) == <<[kind |-> "emit", data |-> data]>> \o channel

\* const emit = async (data) => { process.send(data) }
processSend(channel, data) == Append(channel, [kind |-> "emit", data |-> data])

\* the executor calls emit with its next event
WorkerEmit ==
    /\ bWorker.pc = "running"
    /\ bWorker.script.hasExecutor
    /\ Len(bWorker.emitted) < Len(bWorker.script.emits)
    /\ LET data == bWorker.script.emits[Len(bWorker.emitted) + 1]
       IN /\ bChannel' = processSend(bChannel, data)
          /\ bWorker' = [bWorker EXCEPT !.emitted = Append(@, data)]
    /\ UNCHANGED <<bInvocation, parseVars, schedVars, configVars, matchVars, coreVars, httpVars>>

\* faulty variant: the catch logs the error and lets the process end normally
workerCatchNoExit(w) == [w EXCEPT !.threw = TRUE, !.pc = "exited", !.exitCode = 0]

\* catch (error) { console.error(...); process.exit(1) }
workerCatch(w) == [w EXCEPT !.threw = TRUE, !.pc = "exited", !.exitCode = 1]

\* the executor returned: the result is logged on stdout when it is defined (nothing
\* is written to the channel), and the process ends with nothing left to run
workerReturn(w) ==
    [w EXCEPT !.stdout = IF w.script.end = "return" THEN Append(@, "Result:") ELSE @,
              !.pc = "exited", !.exitCode = 0]

\* runTypescriptModule ends: no executor in the module or a throw of the executor
\* reach the catch, a return reaches the end of the function
WorkerFinish ==
    /\ bWorker.pc = "running"
    /\ bWorker.script.hasExecutor => Len(bWorker.emitted) = Len(bWorker.script.emits)
    /\ bWorker' = IF ~bWorker.script.hasExecutor \/ bWorker.script.end = "throw"
                  THEN workerCatch(bWorker)
                  ELSE workerReturn(bWorker)
    /\ UNCHANGED <<bChannel, bInvocation, parseVars, schedVars, configVars, matchVars, coreVars,
                   httpVars>>

\* the core reads the next message of the channel, in arrival order: an emit message
\* is surfaced to the bus, a terminal result message resolves the invocation;
\* messages after the completion are discarded
sessionRead(inv, message) ==
    IF inv.st # "pending" THEN inv
    ELSE IF message.kind = "emit"
         THEN [inv EXCEPT !.surfaced = Append(@, message.data)]
         ELSE [inv EXCEPT !.st = "resolved", !.terminalRead = TRUE]

SessionReads ==
    /\ bChannel # <<>>
    /\ bInvocation' = sessionRead(bInvocation, Head(bChannel))
    /\ bChannel' = Tail(bChannel)
    /\ UNCHANGED <<bWorker, parseVars, schedVars, configVars, matchVars, coreVars, httpVars>>

\* the core sees the end of the channel of an exited worker: without a terminal
\* message the invocation fails with "incomplete execution"
sessionExit(inv) ==
    IF inv.st = "pending"
    THEN [inv EXCEPT !.st = "failed", !.error = "incomplete execution"]
    ELSE inv

SessionSeesExit ==
    /\ bWorker.pc = "exited"
    /\ bChannel = <<>>
    /\ bInvocation.st = "pending"
    /\ bInvocation' = sessionExit(bInvocation)
    /\ UNCHANGED <<bWorker, bChannel, parseVars, schedVars, configVars, matchVars, coreVars,
                   httpVars>>

BridgeNext ==
    \/ \E script \in ExecutorScripts : BridgeInvoke(script)
    \/ WorkerEmit
    \/ WorkerFinish
    \/ SessionReads
    \/ SessionSeesExit

SpecBridge == Init /\ [][BridgeNext]_vars

(***************************************************************************)
(* The config-extraction worker: a ruby process that is given a step file,  *)
(* loads it, calls its config function and writes the result on the channel *)
(* as one line of JSON.                                                     *)
(***************************************************************************)
Newline == "\n"
Quote == "\""
Backslash == "\\"
FilePath == <<"s", ".", "r", "b">>

ConfigValues ==
    {Nil,
     [t |-> "str", k |-> <<>>, s |-> <<"a">>],
     [t |-> "str", k |-> <<>>, s |-> <<"a", Newline, "b">>],
     [t |-> "hash", k |-> <<"n">>, s |-> <<"a", Quote>>],
     [t |-> "nan", k |-> <<>>, s |-> <<>>]}

\* one run of the worker: its arguments, what the file system answers, what loading
\* the file and calling config do, and the state of the channel's descriptor
ConfigRuns ==
    {[argv |-> a, exists |-> e, readable |-> r, existsAtLoad |-> e2, load |-> l,
      config |-> c, value |-> v, fd |-> f] :
        a \in {<<>>, <<FilePath>>}, e \in BOOLEAN, r \in BOOLEAN, e2 \in BOOLEAN,
        l \in {"defines", "noConfig", "raises", "syntaxError"},
        c \in {"returns", "raises"}, v \in ConfigValues,
        f \in {"open", "EBADF", "EPIPE"}}

\* raise and exit: exit(n) raises SystemExit carrying the status
raise(class) == [class |-> class, status |-> 0]
exit(n) == [class |-> "SystemExit", status |-> n]

\* the exception classes the worker meets and their parents
superclass(class) ==
    CASE class = "RuntimeError"    -> "StandardError"
      [] class = "NameError"       -> "StandardError"
      [] class = "GeneratorError"  -> "StandardError"
      [] class = "EBADF"           -> "SystemCallError"
      [] class = "EPIPE"           -> "SystemCallError"
      [] class = "SystemCallError" -> "StandardError"
      [] class = "LoadError"       -> "ScriptError"
      [] class = "SyntaxError"     -> "ScriptError"
      [] OTHER                     -> "Exception"

\* whether a rescue clause for the class `handled` takes an exception of `class`
RECURSIVE rescues(_, _)
rescues(handled, class) ==
    IF class = "none" THEN FALSE
    ELSE IF class = handled THEN TRUE
    ELSE IF class = "Exception" THEN FALSE
    ELSE rescues(handled, superclass(class))

\* the characters of a string inside a JSON string literal
RECURSIVE escape(_)
escape(s) ==
    IF s = <<>> THEN <<>>
    ELSE (IF Head(s) = Newline THEN <<Backslash, "n">>
          ELSE IF Head(s) \in {Quote, Backslash} THEN <<Backslash, Head(s)>>
          ELSE <<Head(s)>>) \o escape(Tail(s))

jsonString(s) == <<Quote>> \o escape(s) \o <<Quote>>

\* message.to_json: the generated text, or the error of the generator (a float that
\* is not a number has no JSON text)
to_json(message) ==
    CASE message.t = "nil"  -> [exc |-> NoException, text |-> <<"n", "u", "l", "l">>]
      [] message.t = "str"  -> [exc |-> NoException, text |-> jsonString(message.s)]
      [] message.t = "hash" ->
            [exc |-> NoException,
             text |-> <<"{">> \o jsonString(message.k) \o <<":">>
                         \o jsonString(message.s) \o <<"}">>]
      [] OTHER              -> [exc |-> raise("GeneratorError"), text |-> <<>>]

\* faulty variant: the rescue warns and lets send_message return
rescueEBADFNoExit(exc) == IF rescues("EBADF", exc.class) THEN NoException ELSE exc

\* rescue Errno::EBADF => e ; warn ... ; exit(1)
rescueEBADF(exc) == IF rescues("EBADF", exc.class) THEN exit(1) ELSE exc

\* send_message: IO.new on the channel's descriptor, the JSON text and a newline
\* written and flushed; what it wrote on the channel and the exception it leaves with
send_message(fd, message) ==
    LET json == to_json(message)
        body == IF fd = "EBADF" THEN raise("EBADF")
                ELSE IF json.exc # NoException THEN json.exc
                ELSE IF fd = "EPIPE" THEN raise("EPIPE")
                ELSE NoException
    IN [written |-> IF body = NoException THEN json.text \o <<Newline>> ELSE <<>>,
        warned  |-> rescues("EBADF", body.class),
        exc     |-> rescueEBADF(body)]

\* the two rescue clauses of extract_config: a NameError and any other StandardError
\* are raised again as a RuntimeError, everything else passes through
extractRescue(exc) ==
    IF rescues("NameError", exc.class) THEN raise("RuntimeError")
    ELSE IF rescues("StandardError", exc.class) THEN raise("RuntimeError")
    ELSE exc

\* extract_config: the file is looked up again, loaded, and its config function called
extract_config(run) ==
    LET body == IF ~run.existsAtLoad THEN raise("LoadError")
                ELSE IF run.load = "raises" THEN raise("RuntimeError")
                ELSE IF run.load = "syntaxError" THEN raise("SyntaxError")
                ELSE IF run.load = "noConfig" THEN raise("NameError")
                ELSE IF run.config = "raises" THEN raise("RuntimeError")
                ELSE NoException
    IN [exc |-> extractRescue(body), value |-> run.value]

\* how the process ends with an exception leaving the main block: rescue => e warns
\* and exits with 1; a SystemExit ends the process with its status; any other
\* exception is reported by the interpreter, which ends with status 1
processEnd(w, exc) ==
    [w EXCEPT !.pc = "exited",
              !.stderr = IF exc.class = "SystemExit" THEN @ ELSE @ + 1,
              !.status = IF rescues("StandardError", exc.class) THEN 1
                         ELSE IF exc.class = "SystemExit" THEN exc.status
                         ELSE 1]

\* the worker is started with its arguments
ConfigWorkerSpawn(run) ==
    /\ cfgWorker.pc = "none"
    /\ cfgWorker' = [NoConfigWorker EXCEPT !.pc = "main", !.run = run]
    /\ UNCHANGED <<parseVars, schedVars, bridgeVars, matchVars, coreVars, httpVars>>

\* the checks of the main block: an argument, a file that exists and is readable
mainChecks(run) ==
    IF run.argv = <<>> THEN exit(1)
    ELSE IF ~run.exists THEN exit(1)
    ELSE IF ~run.readable THEN exit(1)
    ELSE NoException

ConfigMainChecks ==
    /\ cfgWorker.pc = "main"
    /\ LET exc == mainChecks(cfgWorker.run)
       IN cfgWorker' = IF exc = NoException
                       THEN [cfgWorker EXCEPT !.pc = "extract"]
                       ELSE processEnd([cfgWorker EXCEPT !.stderr = @ + 1], exc)
    /\ UNCHANGED <<parseVars, schedVars, bridgeVars, matchVars, coreVars, httpVars>>

\* config = extract_config(file_path)
ConfigExtract ==
    /\ cfgWorker.pc = "extract"
    /\ LET r == extract_config(cfgWorker.run)
       IN cfgWorker' = IF r.exc = NoException
                       THEN [cfgWorker EXCEPT !.pc = "send", !.config = r.value]
                       ELSE processEnd(cfgWorker, r.exc)
    /\ UNCHANGED <<parseVars, schedVars, bridgeVars, matchVars, coreVars, httpVars>>

\* send_message(config) ; exit(0)
ConfigSend ==
    /\ cfgWorker.pc = "send"
    /\ LET r == send_message(cfgWorker.run.fd, cfgWorker.config)
           w == [cfgWorker EXCEPT !.channel = @ \o r.written,
                                  !.stderr = IF r.warned THEN @ + 1 ELSE @]
       IN cfgWorker' = processEnd(w, IF r.exc = NoException THEN exit(0) ELSE r.exc)
    /\ UNCHANGED <<parseVars, schedVars, bridgeVars, matchVars, coreVars, httpVars>>

ConfigNext ==
    \/ \E run \in ConfigRuns : ConfigWorkerSpawn(run)
    \/ ConfigMainChecks
    \/ ConfigExtract
    \/ ConfigSend

SpecConfig == Init /\ [][ConfigNext]_vars

(***************************************************************************)
(* The matching function on its own: every pair of strings up to MaxLen.    *)
(***************************************************************************)
InitMatch ==
    /\ mType \in Strings
    /\ mPattern \in Strings
    /\ mCalled = FALSE
    /\ mResult = FALSE
    /\ CoreInit /\ HttpIdle /\ ParseIdle /\ SchedulerInit /\ BridgeIdle /\ ConfigIdle

Match ==
    /\ ~mCalled
    /\ mCalled' = TRUE
    /\ mResult' = eventMatchesPattern(mType, mPattern)
    /\ UNCHANGED <<mType, mPattern, coreVars, httpVars, timeVars>>

SpecMatch == InitMatch /\ [][Match]_vars

(***************************************************************************)
(* Properties                                                              *)
(***************************************************************************)
RoundIds == 1..Len(rounds)
SubIds(r) == 1..Len(rounds[r].subs)
ReqIds == 1..Len(reqs)

\* the matching rule as specified: equality, "*", or "prefix.*" where the type
\* begins with "prefix." (the dot included)
IsSuffixWildcard(pattern) == endsWith(pattern, <<".", "*">>)
specMatch(eventType, pattern) ==
    \/ pattern = <<"*">>
    \/ pattern = eventType
    \/ IsSuffixWildcard(pattern) /\ startsWith(eventType, sliceEnd(pattern, 1))

\* C1: on an in-memory bus, a failing subscriber does not stop publish from calling
\* every other subscriber of the list, publish never rejects, and once every
\* subscriber has finished or failed the publish promise can settle (no hang).
PublishIsolatesFailures ==
    \A r \in RoundIds :
        rounds[r].inMemory =>
            /\ rounds[r].outcome # "rejected"
            /\ \A i \in SubIds(r) : rounds[r].subs[i].invoked
            /\ \A i \in SubIds(r) :
                  rounds[r].subs[i].st = "failed" =>
                      \A j \in SubIds(r) \ {i} :
                          rounds[r].subs[j].calls =
                              IF eventMatchesPattern(rounds[r].event.type,
                                                     rounds[r].subs[j].pattern)
                              THEN 1 ELSE 0
            /\ ((\A i \in SubIds(r) : Settled(rounds[r].subs[i]))
                    /\ rounds[r].outcome = "pending")
                  => ENABLED PublishSettle(r)

\* a round of two subscribers, one failed and the other returned, whose publish resolved
PublishIsolatesFailuresWitness ==
    \E r \in RoundIds :
        /\ rounds[r].inMemory
        /\ Len(rounds[r].subs) = 2
        /\ rounds[r].subs[1].st = "failed"
        /\ rounds[r].subs[2].st = "ok"
        /\ rounds[r].outcome = "resolved"

\* C2: the pattern "a.*" (order.*) matches exactly the types that begin with "a."
\* (order.), the separating dot included: not "a" (order), not "aa.a" (orderline.created).
SuffixWildcardIncludesDot ==
    (mCalled /\ mPattern = PatternSuffix)
        => (mResult <=> startsWith(mType, sliceEnd(PatternSuffix, 1)))

\* C3: "*" matches every type, a type matches itself, and a pattern that is neither
\* the type, nor "*", nor of the form "prefix.*" matches nothing (and returns a boolean).
MatchAnyExactElseFalse ==
    mCalled =>
        /\ mResult \in BOOLEAN
        /\ (mPattern = <<"*">> => mResult)
        /\ (mPattern = mType => mResult)
        /\ ((mPattern # mType /\ mPattern # <<"*">> /\ ~IsSuffixWildcard(mPattern))
               => ~mResult)

\* the three cases, each after a call: "*" against a type, a type against itself,
\* and a wildcard in another position ("*.a") against "a.a"
MatchAnyExactElseFalseWitness ==
    /\ mCalled
    /\ mPattern = <<"*", ".", "a">>
    /\ mType = <<"a", ".", "a">>
    /\ ~mResult

\* C4: in a fan-out round every subscription whose pattern matches the event type has
\* its component invoked exactly once with the event's data and the publish's options,
\* no subscription whose pattern does not match is invoked, and nothing is retried.
MatchingSubscribersInvokedOnce ==
    \A r \in RoundIds : \A i \in SubIds(r) :
        rounds[r].inMemory =>
            IF specMatch(rounds[r].event.type, rounds[r].subs[i].pattern)
            THEN /\ rounds[r].subs[i].calls = 1
                 /\ rounds[r].subs[i].args.input = rounds[r].event.data
                 /\ rounds[r].subs[i].args.emitOpts = rounds[r].opts
            ELSE rounds[r].subs[i].calls = 0

\* C5: a publish promise is resolved only when every subscriber of its round has
\* finished or failed.
PublishIsBarrier ==
    \A r \in RoundIds :
        rounds[r].outcome = "resolved" =>
            \A i \in SubIds(r) : Settled(rounds[r].subs[i])

\* a resolved round one of whose components failed, while the round started by an
\* emit that a component of it did not await is still running
PublishIsBarrierWitness ==
    \E r \in RoundIds, c \in RoundIds :
        /\ rounds[r].outcome = "resolved"
        /\ \E i \in SubIds(r) : rounds[r].subs[i].st = "failed"
        /\ rounds[c].origin.kind = "handler"
        /\ rounds[c].origin.round = r
        /\ rounds[c].outcome = "pending"
        /\ \E j \in SubIds(c) : rounds[c].subs[j].st = "running"

\* C6: an event emitted through a component's emit callback is published with the
\* options (trace id and context) of the round that invoked the component.
TraceContextInherited ==
    \A r \in RoundIds :
        rounds[r].origin.kind = "handler" =>
            rounds[r].opts = rounds[rounds[r].origin.round].opts

\* a chain of depth two under trace "t2": a direct emit, an emit by a component of
\* that round, and an emit by a component of the second round
TraceContextInheritedWitness ==
    \E r \in RoundIds :
        /\ rounds[r].origin.kind = "handler"
        /\ rounds[rounds[r].origin.round].origin.kind = "handler"
        /\ rounds[r].opts = [traceId |-> <<"t", "2">>]

\* C7: the options of an event emitted for a request carry a trace id: the request's
\* x-trace-id header when it has one, otherwise an id no other request's event has.
RequestEmitsCarryTraceId ==
    \A r \in RoundIds :
        rounds[r].origin.kind = "http" =>
            LET q == rounds[r].origin.req
            IN /\ rounds[r].opts.traceId # Undefined
               /\ reqs[q].header # Undefined => rounds[r].opts.traceId = reqs[q].header
               /\ reqs[q].header = Undefined =>
                     \A r2 \in RoundIds \ {r} :
                         rounds[r2].origin.kind = "http" =>
                             rounds[r2].opts.traceId # rounds[r].opts.traceId

\* C8: a request whose authorize rejected is answered 401, and transform is not
\* called and nothing is emitted for it.
UnauthorizedGets401 ==
    \A q \in ReqIds :
        reqs[q].auth = "rejected" =>
            /\ reqs[q].sent = <<401>>
            /\ \A k \in 1..Len(reqs[q].log) : reqs[q].log[k] \notin {"transform", "emit"}
            /\ \A r \in RoundIds :
                  ~(rounds[r].origin.kind = "http" /\ rounds[r].origin.req = q)

UnauthorizedGets401Witness ==
    \E q \in ReqIds :
        /\ reqs[q].auth = "rejected"
        /\ reqs[q].sent = <<401>>
        /\ reqs[q].pc = "done"

\* no route was registered for the request's method and path
NoRoute(req) ==
    ~\E route \in routes :
        route.method = toLowerCase(req.method) /\ route.path = req.path

\* C9: a request to a path with no registered route is answered 404, and no
\* authorize, transform or emit happens for it.
UnknownPathGets404 ==
    \A q \in ReqIds :
        NoRoute(reqs[q]) =>
            /\ reqs[q].sent = <<404>>
            /\ reqs[q].log = <<>>
            /\ \A r \in RoundIds :
                  ~(rounds[r].origin.kind = "http" /\ rounds[r].origin.req = q)

\* "/a/" reaches handleRequest through the route "/a" and is not in the traffic map
UnknownPathGets404Witness ==
    \E q \in ReqIds :
        /\ reqs[q].path = PathASlash
        /\ reqs[q].sent = <<404>>
        /\ reqs[q].log = <<>>

\* C10: a request is answered 400 exactly when its transform threw.
BadRequestIffTransformThrew ==
    \A q \in ReqIds :
        reqs[q].pc = "done" =>
            ((\E k \in 1..Len(reqs[q].sent) : reqs[q].sent[k] = 400)
                <=> reqs[q].transformThrew)

\* C11: a request whose failure is neither an authorize rejection nor a transform
\* error (here: the emit of its event rejected) is answered 500.
OtherFailureGets500 ==
    \A q \in ReqIds :
        (reqs[q].pc = "done" /\ reqs[q].round # 0
            /\ rounds[reqs[q].round].outcome = "rejected")
          => reqs[q].sent = <<500>>

\* the emits made for request q
RequestRounds(q) ==
    {r \in RoundIds : rounds[r].origin.kind = "http" /\ rounds[r].origin.req = q}

\* C12: a request whose transform returned an event has exactly one event published
\* for it, the one transform returned; the publish follows the transform call, and the
\* response is sent only after it (after its promise settled).  No event is
\* published for a request whose transform returned nothing.
RequestEmitsExactlyOnce ==
    \A q \in ReqIds :
        IF reqs[q].event # NoEvent
        THEN /\ Cardinality(RequestRounds(q)) = 1
             /\ RequestRounds(q) = {reqs[q].round}
             /\ rounds[reqs[q].round].event = reqs[q].event
             /\ Len(reqs[q].log) >= 2
             /\ SubSeq(reqs[q].log, Len(reqs[q].log) - 1, Len(reqs[q].log))
                   = <<"transform", "emit">>
             /\ reqs[q].pc = "emit" => reqs[q].sent = <<>>
             /\ reqs[q].sent # <<>> =>
                   /\ Len(reqs[q].sent) = 1
                   /\ rounds[reqs[q].round].outcome # "pending"
        ELSE RequestRounds(q) = {}

\* a request that passed authorize, whose event was published and answered 200
RequestEmitsExactlyOnceWitness ==
    \E q \in ReqIds :
        /\ reqs[q].auth = "ok"
        /\ reqs[q].event # NoEvent
        /\ reqs[q].sent = <<200>>
        /\ rounds[reqs[q].round].outcome = "resolved"

\* C13: when two configurations claim POST /a the first one stays the active one:
\* the traffic map keeps it and requests to POST /a are served by it (authorize first).
FirstRegistrationStaysActive ==
    /\ mapHas(traffic, PathA) => mapGet(traffic, PathA).id = ConfigA.id
    /\ \A q \in ReqIds :
          (reqs[q].path = PathA /\ reqs[q].method = "POST")
            => (reqs[q].log # <<>> /\ reqs[q].log[1] = "authorize")

\* well-formed units
wellFormedConfig(config) ==
    config.path # <<>> /\ config.method # "" /\ config.hasTransform
wellFormedModule(id) == Module(id).loads /\ Module(id).hasSubscribe
routePath(config) ==
    IF startsWith(config.path, <<"/">>) THEN config.path ELSE <<"/">> \o config.path

\* C14: a load never aborts, and after it every well-formed unit of the load is
\* registered: the components that load and subscribe, and the routes of the
\* configurations that have path, method and transform.
LoadFailsSoft ==
    /\ initPc = "ready" =>
          \E files \in ComponentFileLists :
              {components[k].id : k \in 1..Len(components)}
                = {files[i] : i \in {j \in 1..Len(files) : wellFormedModule(files[j])}}
    /\ serverPc # "constructed" =>
          /\ serverPc = "listening"
          /\ \E configs \in TrafficConfigLists :
                /\ {traffic[k].key : k \in 1..Len(traffic)}
                     = {routePath(configs[i]) :
                           i \in {j \in 1..Len(configs) : wellFormedConfig(configs[j])}}
                /\ {route.path : route \in routes}
                     = {traffic[k].key : k \in 1..Len(traffic)}

\* the subscriber lists a completed load leaves on the bus
CompleteSubscriberSets ==
    {subscribeComponents(NewInMemoryMessageBus(0),
                         registerComponents(<<>>, files)).subscribers :
        files \in ComponentFileLists}

\* the subscribers a publish was delivered to
roundSubscribers(r) ==
    [i \in 1..Len(rounds[r].subs) |->
        [step |-> rounds[r].subs[i].step, pattern |-> rounds[r].subs[i].pattern]]

\* C15: a publish on the bus of a reload (the second initialize or a later one) is
\* delivered to the complete subscriber list of a load, never to an empty or partly
\* built one.
ReloadIsAtomic ==
    \A r \in RoundIds :
        (rounds[r].inMemory /\ rounds[r].bus >= 2)
            => roundSubscribers(r) \in CompleteSubscriberSets

\* the reference grammar: <integer><unit>, or five tokens (non-empty, without
\* spaces) separated by single spaces; anything else has no interval
refTokens(str) == {k \in 1..Len(split(str)) : split(str)[k] # <<>>}
refSchedule(str) ==
    IF timeRegexMatches(str)
    THEN [threw |-> FALSE,
          ms |-> parseInt(SubSeq(str, 1, Len(str) - 1)) * unitMs(str[Len(str)])]
    ELSE IF Len(split(str)) = 5 /\ Cardinality(refTokens(str)) = 5
         THEN [threw |-> FALSE, ms |-> 3600000]
         ELSE [threw |-> TRUE, ms |-> 0]

\* C17: parseSchedule agrees with the reference grammar on every string: "30s" gives
\* 30000, "2h" gives 7200000, five tokens give 3600000, any other string no interval.
ParseAgreesWithGrammar ==
    pCalled =>
        /\ pResult.threw = refSchedule(pSchedule).threw
        /\ pResult.ms = refSchedule(pSchedule).ms
        /\ pSchedule = <<"3", "0", "s">> => pResult.ms = 30000
        /\ pSchedule = <<"2", "h">> => pResult.ms = 7200000
        /\ pSchedule = <<"*", " ", "*", " ", "*", " ", "*", " ", "*">>
              => pResult.ms = 3600000

SchedulerRounds == {r \in RoundIds : rounds[r].origin.kind = "scheduler"}
unparseable(k) == parseSchedule(schedules[k].value.interval).threw

\* C16: no event is emitted by a schedule after stop() returned (and before the
\* next start()), whatever start() and stop() calls came before.
NoEmissionAfterStop ==
    \A r \in SchedulerRounds : ~rounds[r].origin.afterStop

\* C18: when a loaded schedule's interval is unparseable, start() throws an error
\* that names that schedule's id, and the schedule has no timer.
StartErrorNamesScheduleId ==
    (starts > 0 /\ \E k \in 1..Len(schedules) : unparseable(k)) =>
        /\ startError.threw
        /\ \E k \in 1..Len(schedules) :
              unparseable(k) /\ startError.names = schedules[k].key
        /\ \A k \in 1..Len(schedules) :
              unparseable(k) => ~\E t \in timers : t.schedule = schedules[k].key

\* C19: after a start() (and before a stop()) every loaded schedule with a valid
\* interval is active, wherever an invalid one stands in the map.
ValidSchedulesActivated ==
    (starts > 0 /\ ~stopReturned) =>
        \A k \in 1..Len(schedules) :
            ~unparseable(k) =>
                /\ mapHas(activeJobs, schedules[k].key)
                /\ \E t \in timers : t.schedule = schedules[k].key

\* C20: every tick published exactly one event; its type is the eventType declared
\* by the schedule whose timer fired, its data holds the tick's timestamp and the
\* id of that schedule.
TickPublishesOwnEvent ==
    /\ Cardinality(SchedulerRounds) = ticks
    /\ \A r \in SchedulerRounds :
          /\ rounds[r].event.type = mapGet(schedules, rounds[r].origin.schedule).eventType
          /\ rounds[r].event.data.scheduledAt = rounds[r].origin.at
          /\ rounds[r].event.data.scheduleId = rounds[r].origin.schedule

\* both schedules of a two-schedule load ticked, the second one at "d2"
TickPublishesOwnEventWitness ==
    /\ \E r \in SchedulerRounds : rounds[r].origin.schedule = JobA.id
    /\ \E r \in SchedulerRounds :
          /\ rounds[r].origin.schedule = JobB.id
          /\ rounds[r].event.data = [scheduledAt |-> "d2", scheduleId |-> JobB.id]
          /\ rounds[r].event.type = JobB.eventType

\* C21: a live timer can fire whatever the state of earlier ticks' publishes: while
\* their components are still running and after they failed.
TicksAreIndependent ==
    \A t \in timers :
        Len(rounds) < MaxRounds => ENABLED Tick(t, "d1")

\* a tick of schedule "ja" whose publish is still pending with a component running,
\* followed by a second tick of "ja" one of whose components failed, and a tick of "jb"
TicksAreIndependentWitness ==
    \E r1 \in SchedulerRounds, r2 \in SchedulerRounds, r3 \in SchedulerRounds :
        /\ r1 < r2 /\ r1 < r3
        /\ rounds[r1].origin.schedule = JobA.id
        /\ rounds[r1].outcome = "pending"
        /\ \E i \in SubIds(r1) : rounds[r1].subs[i].st = "running"
        /\ rounds[r2].origin.schedule = JobA.id
        /\ \E i \in SubIds(r2) : rounds[r2].subs[i].st = "failed"
        /\ rounds[r3].origin.schedule = JobB.id

\* C22: the options of every event a tick publishes carry a trace id, and two
\* different ticks have different trace ids.
TickCarriesTraceId ==
    \A r \in SchedulerRounds :
        /\ "traceId" \in DOMAIN rounds[r].opts
        /\ \A r2 \in SchedulerRounds \ {r} :
              ("traceId" \in DOMAIN rounds[r2].opts)
                  => rounds[r2].opts.traceId # rounds[r].opts.traceId

\* C23: while a component of a fan-out round is suspended, every sibling subscriber
\* of the round has been called, a sibling whose pattern matches has been invoked,
\* and a sibling that is running can complete.
SiblingsRunConcurrently ==
    \A r \in RoundIds : \A i \in SubIds(r) : \A j \in SubIds(r) \ {i} :
        (rounds[r].inMemory /\ rounds[r].subs[i].st = "running") =>
            /\ rounds[r].subs[j].invoked
            /\ specMatch(rounds[r].event.type, rounds[r].subs[j].pattern)
                  => rounds[r].subs[j].calls = 1
            /\ (rounds[r].subs[j].st = "running" /\ rounds[r].subs[j].waitsFor = 0)
                  => ENABLED HandlerReturn(r, j)

\* the first component of a round is still suspended, the second one has returned
SiblingsRunConcurrentlyWitness ==
    \E r \in RoundIds :
        /\ Len(rounds[r].subs) = 2
        /\ rounds[r].subs[1].st = "running"
        /\ rounds[r].subs[2].st = "ok"
        /\ rounds[r].subs[2].calls = 1

\* C26: a component is invoked with (input, emitFn, traceId): the event's data, an
\* emit callback, and as third argument the trace id of the publish's options.
HandlerGetsTraceId ==
    \A r \in RoundIds : \A i \in SubIds(r) :
        rounds[r].subs[i].calls = 1 =>
            /\ rounds[r].subs[i].args.input = rounds[r].event.data
            /\ rounds[r].subs[i].args.emitOpts = rounds[r].opts
            /\ rounds[r].subs[i].args.third = rounds[r].opts.traceId

\* the invocations of step id in round r
Invocations(r, id) ==
    {i \in SubIds(r) : rounds[r].subs[i].step = id /\ rounds[r].subs[i].calls = 1}

\* C30: for one published event a step is invoked once per declared pattern that
\* matches the event type, so the number of its invocations is the number of its
\* matching patterns (two for a step subscribed to "*" and to the exact type).
InvokedOncePerMatchingPattern ==
    \A r \in RoundIds : \A id \in ModuleIds :
        (rounds[r].inMemory /\ \E i \in SubIds(r) : rounds[r].subs[i].step = id) =>
            /\ \A i \in SubIds(r) : rounds[r].subs[i].calls <= 1
            /\ Cardinality(Invocations(r, id))
                 = Cardinality({k \in 1..Len(Module(id).subscribe) :
                                   specMatch(rounds[r].event.type,
                                             Module(id).subscribe[k])})

\* C27: whatever initialize calls were made, the bus in use holds each (step,
\* pattern) subscription once, and no step is invoked more often for one event than
\* it has declared patterns.
OneSubscriptionPerPattern ==
    /\ \A i \in 1..Len(messageBus.subscribers) :
          \A j \in 1..Len(messageBus.subscribers) :
              i # j => messageBus.subscribers[i] # messageBus.subscribers[j]
    /\ \A r \in RoundIds : \A id \in ModuleIds :
          Cardinality(Invocations(r, id)) <= Len(Module(id).subscribe)

\* C28: a request is never sent a second status, and a request whose handling has
\* finished (by the 404, 401, 400 or 200 path) was sent exactly one.
ExactlyOneResponse ==
    \A q \in ReqIds :
        /\ Len(reqs[q].sent) <= 1
        /\ reqs[q].pc = "done" => Len(reqs[q].sent) = 1
        /\ reqs[q].pc # "done" => reqs[q].sent = <<>>

\* two finished requests: one answered 400 by the catch, one answered 200
ExactlyOneResponseWitness ==
    \E q1 \in ReqIds, q2 \in ReqIds :
        /\ reqs[q1].transformThrew /\ reqs[q1].sent = <<400>>
        /\ reqs[q2].auth = "ok" /\ reqs[q2].sent = <<200>>

\* C29: a request is answered 200 only after the fan-out round of its event has
\* finished, every subscriber of it completed or failed; and a request whose event
\* was published on the in-memory bus is answered 200 even when a subscriber failed.
OkOnlyAfterFanOut ==
    \A q \in ReqIds :
        /\ reqs[q].sent = <<200>> =>
              /\ reqs[q].round # 0
              /\ rounds[reqs[q].round].outcome = "resolved"
              /\ \A i \in SubIds(reqs[q].round) :
                    Settled(rounds[reqs[q].round].subs[i])
        /\ (reqs[q].pc = "done" /\ reqs[q].round # 0
               /\ rounds[reqs[q].round].inMemory)
              => reqs[q].sent = <<200>>

\* a request answered 200 whose round had one component fail and one return
OkOnlyAfterFanOutWitness ==
    \E q \in ReqIds :
        /\ reqs[q].sent = <<200>>
        /\ \E i \in SubIds(reqs[q].round) : rounds[reqs[q].round].subs[i].st = "failed"
        /\ \E i \in SubIds(reqs[q].round) : rounds[reqs[q].round].subs[i].st = "ok"

IsPrefix(a, b) == Len(a) <= Len(b) /\ SubSeq(b, 1, Len(a)) = a

RECURSIVE unescape(_)
unescape(s) ==
    IF s = <<>> THEN <<>>
    ELSE IF Head(s) = Backslash /\ Len(s) >= 2
         THEN <<IF s[2] = "n" THEN Newline ELSE s[2]>> \o unescape(SubSeq(s, 3, Len(s)))
         ELSE <<Head(s)>> \o unescape(Tail(s))

\* one line on the channel: it ends with a newline and holds no other newline
isOneLine(chars) ==
    /\ Len(chars) >= 2
    /\ chars[Len(chars)] = Newline
    /\ \A i \in 1..(Len(chars) - 1) : chars[i] # Newline

\* the line is the JSON document of the value
lineCarries(chars, value) ==
    LET text == SubSeq(chars, 1, Len(chars) - 1)
    IN CASE value.t = "nil" -> text = <<"n", "u", "l", "l">>
         [] value.t = "str" ->
               /\ Len(text) >= 2 /\ text[1] = Quote /\ text[Len(text)] = Quote
               /\ unescape(SubSeq(text, 2, Len(text) - 1)) = value.s
         [] OTHER -> Len(text) >= 2 /\ text[1] = "{" /\ text[Len(text)] = "}"

\* the file yields a config: it is still there when loaded, loading it defines config,
\* config returns, and the returned value has a JSON document
yieldsConfig(run) ==
    /\ run.existsAtLoad
    /\ run.load = "defines"
    /\ run.config = "returns"
    /\ run.value.t # "nan"

\* the run in which the worker is to succeed
configRunSucceeds(run) ==
    /\ run.argv # <<>>
    /\ run.exists
    /\ run.readable
    /\ yieldsConfig(run)
    /\ run.fd = "open"

\* C31: the config-extraction worker writes exactly one newline-terminated JSON
\* message on the channel and exits with status 0 when it is given a file that
\* exists, is readable and yields a config, and the channel can be written; in
\* every other case it writes nothing on the channel and exits with status 1.
\* Nothing is on the channel before the worker has exited.
ConfigWorkerOneMessageOrNone ==
    /\ cfgWorker.pc # "exited" => cfgWorker.channel = <<>>
    /\ cfgWorker.pc = "exited" =>
          IF configRunSucceeds(cfgWorker.run)
          THEN /\ cfgWorker.status = 0
               /\ isOneLine(cfgWorker.channel)
               /\ lineCarries(cfgWorker.channel, cfgWorker.run.value)
          ELSE /\ cfgWorker.status = 1
               /\ cfgWorker.channel = <<>>

\* the worker sent a config that is a string holding a newline, as one line, and
\* exited with status 0
ConfigWorkerOneMessageOrNoneWitness ==
    /\ cfgWorker.pc = "exited"
    /\ cfgWorker.status = 0
    /\ cfgWorker.run.value.s = <<"a", Newline, "b">>
    /\ Len(cfgWorker.channel) = 7

\* the channel's descriptor was bad: nothing was written and the status is 1
ConfigWorkerBadChannelWitness ==
    /\ cfgWorker.pc = "exited"
    /\ cfgWorker.run.fd = "EBADF"
    /\ cfgWorker.run.argv # <<>> /\ cfgWorker.run.exists /\ cfgWorker.run.readable
    /\ yieldsConfig(cfgWorker.run)
    /\ cfgWorker.status = 1
    /\ cfgWorker.channel = <<>>

====
